---- MODULE Spec2Model ----
(***************************************************************************)
(* AudioDrip (src/bot.py): the retry executor, the timestamp parser and    *)
(* the search / selection / cut handlers with the per-user session, the    *)
(* working directory and the cache directory.                              *)
(*                                                                         *)
(* Strings that the code inspects character by character (timestamps) are  *)
(* sequences of one-character strings.                                     *)
(***************************************************************************)
EXTENDS Integers, Sequences, FiniteSets, TLC

VARIABLES
    ts,         \* the timestamp parser's call: [value, done, result]
    rt,         \* one _retry_async call: its parameters, locals and event log
    user_data,  \* context.user_data of each user
    cwd,        \* the files of the working directory
    cache,      \* the files of the cache directory
    hd,         \* the handler being run: its position, locals and what it did
    presented,  \* per user: the (ordinal, id) of every download control sent
    nupd,       \* the number of updates dispatched so far
    parked      \* the handlers suspended at an await while another one runs

pure == <<ts, rt, parked>>
world == <<user_data, cwd, cache, presented>>
vars == <<ts, rt, user_data, cwd, cache, hd, presented, nupd, parked>>

None == "None"

(***************************************************************************)
(* _parse_timestamp_to_seconds (bot.py 110-139)                            *)
(***************************************************************************)
Digits == {"0", "1", "2", "3", "4", "5", "6", "7", "8", "9"}

\* int() of one decimal digit
DigitVal(c) ==
    CASE c = "0" -> 0 [] c = "1" -> 1 [] c = "2" -> 2 [] c = "3" -> 3
      [] c = "4" -> 4 [] c = "5" -> 5 [] c = "6" -> 6 [] c = "7" -> 7
      [] c = "8" -> 8 [] c = "9" -> 9

\* int(p) of a string of decimal digits
RECURSIVE IntOf(_)
IntOf(s) ==
    IF s = <<>> THEN 0
    ELSE 10 * IntOf(SubSeq(s, 1, Len(s) - 1)) + DigitVal(s[Len(s)])

RECURSIVE LStrip(_)
LStrip(s) == IF s # <<>> /\ Head(s) = " " THEN LStrip(Tail(s)) ELSE s

RECURSIVE RStrip(_)
RStrip(s) ==
    IF s # <<>> /\ s[Len(s)] = " " THEN RStrip(SubSeq(s, 1, Len(s) - 1)) ELSE s

\* value.strip()
Strip(s) == RStrip(LStrip(s))

\* re.fullmatch(r"\d+", s)
AllDigits(s) == Len(s) >= 1 /\ \A i \in 1..Len(s) : s[i] \in Digits

\* s.split(sep)
RECURSIVE Split(_, _)
Split(s, sep) ==
    IF \A i \in 1..Len(s) : s[i] # sep THEN <<s>>
    ELSE LET i == CHOOSE k \in 1..Len(s) :
                      s[k] = sep /\ \A j \in 1..(k - 1) : s[j] # sep
         IN  <<SubSeq(s, 1, i - 1)>> \o Split(SubSeq(s, i + 1, Len(s)), sep)

\* re.fullmatch(r"\d{1,2}:\d{1,2}(:\d{1,2})?", s)
MatchColon(s) ==
    LET p == Split(s, ":")
    IN  /\ Len(p) \in {2, 3}
        /\ \A i \in 1..Len(p) : AllDigits(p[i]) /\ Len(p[i]) <= 2

\* the number of leading digits of s
RECURSIVE LeadDigits(_)
LeadDigits(s) ==
    IF s # <<>> /\ Head(s) \in Digits THEN 1 + LeadDigits(Tail(s)) ELSE 0

\* one optional group (?:(\d+)u)? of the unit pattern, matched at the start of s
TakeGroup(s, u) ==
    LET k == LeadDigits(s)
    IN  IF k >= 1 /\ Len(s) > k /\ s[k + 1] = u
        THEN [has |-> TRUE, digits |-> SubSeq(s, 1, k),
              rest |-> SubSeq(s, k + 2, Len(s))]
        ELSE [has |-> FALSE, digits |-> <<>>, rest |-> s]

\* re.fullmatch(r"(?:(\d+)h)?(?:(\d+)m)?(?:(\d+)s)?", s) and its groups
MatchUnits(s) ==
    LET gh == TakeGroup(s, "h")
        gm == TakeGroup(gh.rest, "m")
        gs == TakeGroup(gm.rest, "s")
    IN  [matched |-> gs.rest = <<>>, h |-> gh, m |-> gm, s |-> gs]

\* int(match.group(i) or 0)
GroupVal(g) == IF g.has THEN IntOf(g.digits) ELSE 0

Returned(n) == [ok |-> TRUE, secs |-> n, msg |-> <<>>]
\* raise ValueError(msg): the message is a sequence of text pieces and characters
Raised(msg) == [ok |-> FALSE, secs |-> -1, msg |-> msg]

\* the result slot of a call that has not returned
NoResult == [ok |-> FALSE, secs |-> -1, msg |-> <<>>]
TsIdle == [value |-> <<>>, done |-> FALSE, result |-> NoResult]

\* a range check that lets 60 through
BadMinSecOffByOne(m, s) == s > 60 \/ m < 0 \/ s < 0

\* the range check of the mm:ss form (line 124)
BadMinSec(m, s) == s >= 60 \/ m < 0 \/ s < 0

\* m * 60 + s (line 126)
MinSecTotal(m, s) == m * 60 + s

\* an hour counted as 60 seconds
HourMinSecTotalHourAsMinute(h, m, s) == h * 60 + m * 60 + s

\* h * 3600 + m * 60 + s (line 131)
HourMinSecTotal(h, m, s) == h * 3600 + m * 60 + s

\* h * 3600 + m * 60 + s (line 138)
UnitsTotal(h, m, s) == h * 3600 + m * 60 + s

\* the range check of the hh:mm:ss form (line 129)
BadHourMinSec(h, m, s) == m >= 60 \/ s >= 60 \/ h < 0 \/ m < 0 \/ s < 0

\* the error for a string that matches no grammar (line 139)
InvalidFormat(value) == Raised(<<"Invalid timestamp format: ">> \o value)

_parse_timestamp_to_seconds(raw) ==
    LET value == Strip(raw)
        u == MatchUnits(value)
    IN  IF value = <<>> THEN Raised(<<"Empty timestamp">>)
        ELSE IF AllDigits(value) THEN Returned(IntOf(value))
        ELSE IF MatchColon(value)
        THEN LET parts == Split(value, ":")
                 n == [i \in 1..Len(parts) |-> IntOf(parts[i])]
             IN  IF Len(parts) = 2
                 THEN IF BadMinSec(n[1], n[2])
                      THEN Raised(<<"Invalid mm:ss">>)
                      ELSE Returned(MinSecTotal(n[1], n[2]))
                 ELSE IF BadHourMinSec(n[1], n[2], n[3])
                      THEN Raised(<<"Invalid hh:mm:ss">>)
                      ELSE Returned(HourMinSecTotal(n[1], n[2], n[3]))
        ELSE IF u.matched /\ (u.h.has \/ u.m.has \/ u.s.has)
        THEN Returned(UnitsTotal(GroupVal(u.h), GroupVal(u.m), GroupVal(u.s)))
        ELSE InvalidFormat(value)

(***************************************************************************)
(* The bot's state: sessions, directories, the handler in progress         *)
(***************************************************************************)
Users == {"u1"}
MaxUpdates == 3                 \* the updates of one behaviour of the model
Vids == {"v1", "v2"}            \* the videos the capabilities know
Queries == {"q1", "q2"}
NumResults == 3                 \* search_songs(query, 3)
\* what ydl.extract_info returns as 'entries' in the model: videos, None for an
\* entry yt-dlp could not resolve
EntryLists == {<<>>, <<"v1">>, <<"v2", "v1">>, <<None, "v2">>, <<None, "v2", "v1">>}
\* videos whose title has none of the characters the code strips: for the
\* others yt-dlp's file name is not the name the code expects
CleanTitled == {"v1"}

TitleOf(v) == <<"title", v>>
UploaderOf(v) == <<"uploader", v>>

\* context.user_data before any handler stored anything
NoSession == [search_results |-> <<>>, search_query |-> None,
              last_audio_path |-> <<>>, last_audio_title |-> <<>>,
              last_audio_artist |-> <<>>]

Idle == [kind |-> "idle", pc |-> "idle"]

\* a file of the cache directory: its name and whether it is older than the
\* two hours of _cleanup_cache
CacheFile(name, old) == [name |-> name, old |-> old]
\* the name of the cache entry of a delivered track (lines 783-785)
CacheAudio(v) == <<"audio", TitleOf(v), UploaderOf(v)>>
\* the cache directory is on disk (line 83) and outlives the process, the
\* sessions do not: a track an earlier run delivered may still be there
EarlierRun == {CacheFile(CacheAudio("v2"), TRUE)}

\* the bot with no update taken and empty directories
WorldInit ==
    /\ user_data = [u \in Users |-> NoSession]
    /\ cwd = {}
    /\ cache = {}
    /\ hd = Idle
    /\ presented = [u \in Users |-> {}]
    /\ nupd = 0
    /\ parked = {}

\* one outward message: what it says, the controls it carries, whether it went
\* through _retry_async, and whether the transport took it
Msg(kind, arg, ctl, retry, ok) ==
    [kind |-> kind, arg |-> arg, ctl |-> ctl, retry |-> retry, ok |-> ok]

Min(a, b) == IF a < b THEN a ELSE b

(***************************************************************************)
(* _retry_async (bot.py 53-65).  Delays are counted in half seconds.       *)
(***************************************************************************)
DefaultRetries == 3     \* retries=3
BaseDelay == 2          \* base_delay=1.0
Jitter == 1             \* jitter=0.5
MaxRetries == 3         \* the largest retries= the model calls with
Errs == {"e1", "e2"}    \* the exceptions the wrapped operation raises
Vals == {"r1", "r2"}    \* the values the wrapped operation returns

RECURSIVE Pow2(_)
Pow2(n) == IF n <= 0 THEN 1 ELSE 2 * Pow2(n - 1)

\* gives up one attempt early
RetryExhaustedEarly(attempt, retries) == attempt >= retries

\* allows one attempt more
RetryExhaustedLate(attempt, retries) == attempt > retries + 1

\* if attempt > retries: raise (line 61)
RetryExhausted(attempt, retries) == attempt > retries

\* a backoff that grows by base_delay with every attempt
DelaysLinear(attempt) == {BaseDelay * attempt + j : j \in 0..Jitter}

\* base_delay * (2 ** (attempt - 1)) + random.uniform(0, jitter): the values
\* the delay can take (line 63)
Delays(attempt) == {BaseDelay * Pow2(attempt - 1) + j : j \in 0..Jitter}

RtIdle == [status |-> "idle", retries |-> 0, attempt |-> 0, log |-> <<>>,
           error |-> None, value |-> None]

\* await func(*args, **kwargs) returns: the executor returns its value (line 58)
RetryCallReturns ==
    /\ rt.status = "calling"
    /\ \E v \in Vals :
         rt' = [rt EXCEPT !.status = "returned", !.value = v,
                          !.log = @ \o <<[ev |-> "call", err |-> None,
                                          val |-> v, delay |-> 0]>>]
    /\ UNCHANGED <<ts, world, hd, nupd, parked>>

\* await func(...) raises e: count the attempt, re-raise e when the retries are
\* used up, otherwise compute the delay and sleep (lines 59-65)
RetryCallRaises ==
    /\ rt.status = "calling"
    /\ \E e \in Errs :
         LET attempt == rt.attempt + 1
             logged == rt.log \o <<[ev |-> "call", err |-> e, val |-> None,
                                      delay |-> 0]>>
         IN  IF RetryExhausted(attempt, rt.retries)
             THEN rt' = [rt EXCEPT !.status = "raised", !.attempt = attempt,
                                   !.log = logged, !.error = e]
             ELSE \E d \in Delays(attempt) :
                      rt' = [rt EXCEPT !.status = "sleeping", !.attempt = attempt,
                                       !.log = logged \o
                                           <<[ev |-> "sleep", err |-> None,
                                              val |-> None, delay |-> d]>>]
    /\ UNCHANGED <<ts, world, hd, nupd, parked>>

\* await asyncio.sleep(delay) is over: the loop calls again (line 65, 56)
RetrySleepEnds ==
    /\ rt.status = "sleeping"
    /\ rt' = [rt EXCEPT !.status = "calling"]
    /\ UNCHANGED <<ts, world, hd, nupd, parked>>

InitRetry ==
    /\ ts = TsIdle
    /\ WorldInit
    /\ rt \in [status : {"calling"}, retries : 0..MaxRetries, attempt : {0},
                log : {<<>>}, error : {None}, value : {None}]

NextRetry == RetryCallReturns \/ RetryCallRaises \/ RetrySleepEnds

SpecRetry == InitRetry /\ [][NextRetry]_vars

\* every awaited call returns or raises and every sleep ends
SpecRetryLive == SpecRetry /\ WF_vars(NextRetry)

\* the attempts of the call so far: the errors they raised, None for a return
Attempts == SelectSeq(rt.log, LAMBDA x : x.ev = "call")

\* C3: when the executor gives up on an operation that failed on every attempt,
\* the operation was attempted retries + 1 times and the error the executor
\* raises is the error of the last attempt.
C3_RetryExhausts ==
    rt.status = "raised" =>
        /\ \A i \in 1..Len(Attempts) : Attempts[i].err # None
        /\ Len(Attempts) = rt.retries + 1
        /\ rt.error = Attempts[Len(Attempts)].err

\* the default retries=3 gave up after 4 attempts whose errors differ
C3_Witness ==
    /\ rt.status = "raised" /\ rt.retries = DefaultRetries
    /\ Len(Attempts) = 4
    /\ Attempts[1].err = "e1" /\ Attempts[4].err = "e2" /\ rt.error = "e2"

(***************************************************************************)
(* The parser's inputs: every string over TsAlphabet of at most MaxTsLen   *)
(* characters, and the longer strings of the colon and unit forms built    *)
(* from one- and two-digit fields.                                         *)
(***************************************************************************)
MaxTsLen == 4
TsAlphabet == {"0", "1", "5", "6", "7", ":", "m", "s", "a", " "}
FieldDigits == {"0", "1", "2", "3", "6"}
Fields == {<<a>> : a \in FieldDigits} \cup {<<a, b>> : a, b \in FieldDigits}
ShortInputs == UNION {[1..k -> TsAlphabet] : k \in 0..MaxTsLen}
ColonInputs == {f \o <<":">> \o g \o <<":">> \o h : f, g, h \in Fields}
UnitGroups(u) == {<<>>} \cup {f \o <<u>> : f \in Fields}
UnitInputs ==
    {f \o g \o h : f \in UnitGroups("h"), g \in UnitGroups("m"), h \in UnitGroups("s")}
ExampleInputs == {<<"a", "b", "c">>, <<"1", "m", "3", "0", "s">>, <<"1", ":", "7", "5">>}
TsInputs == ShortInputs \cup ColonInputs \cup UnitInputs \cup ExampleInputs


InitParse ==
    /\ ts \in [value : TsInputs, done : {FALSE}, result : {NoResult}]
    /\ rt = RtIdle
    /\ WorldInit

\* the call _parse_timestamp_to_seconds(value)
ParseCall ==
    /\ ~ts.done
    /\ ts' = [ts EXCEPT !.done = TRUE,
                        !.result = _parse_timestamp_to_seconds(ts.value)]
    /\ UNCHANGED <<rt, world, hd, nupd, parked>>

NextParse == ParseCall

SpecParse == InitParse /\ [][NextParse]_vars

(***************************************************************************)
(* The grammars of section 4.2, stated on the characters of the string     *)
(***************************************************************************)
\* the decimal value of a digit string, most significant digit first
RECURSIVE Horner(_, _)
Horner(acc, s) ==
    IF s = <<>> THEN acc ELSE Horner(10 * acc + DigitVal(Head(s)), Tail(s))
Dec(s) == Horner(0, s)

IsTrimmed(s) == s = <<>> \/ (s[1] # " " /\ s[Len(s)] # " ")
IsNumber(s) == s # <<>> /\ \A i \in 1..Len(s) : s[i] \in Digits
IsField(s) == IsNumber(s) /\ Len(s) \in {1, 2}
\* an absent group, or a number followed by the unit letter
IsUnitGroup(s, u) ==
    s = <<>> \/ (Len(s) >= 2 /\ s[Len(s)] = u /\ IsNumber(SubSeq(s, 1, Len(s) - 1)))
UnitGroupValue(s) == IF s = <<>> THEN 0 ELSE Dec(SubSeq(s, 1, Len(s) - 1))
Piece(s, i, j) == SubSeq(s, i, j)

\* the (m, s) readings of v as m:s
MinSecReadings(v) ==
    {<<Piece(v, 1, i - 1), Piece(v, i + 1, Len(v))>> :
        i \in {k \in 1..Len(v) : v[k] = ":"
                  /\ IsField(Piece(v, 1, k - 1)) /\ IsField(Piece(v, k + 1, Len(v)))}}
\* the (h, m, s) readings of v as h:m:s
HourMinSecReadings(v) ==
    {<<Piece(v, 1, p[1] - 1), Piece(v, p[1] + 1, p[2] - 1), Piece(v, p[2] + 1, Len(v))>> :
        p \in {q \in (1..Len(v)) \X (1..Len(v)) :
                  /\ q[1] < q[2] /\ v[q[1]] = ":" /\ v[q[2]] = ":"
                  /\ IsField(Piece(v, 1, q[1] - 1))
                  /\ IsField(Piece(v, q[1] + 1, q[2] - 1))
                  /\ IsField(Piece(v, q[2] + 1, Len(v)))}}
\* the (h-group, m-group, s-group) readings of v as [Nh][Nm][Ns]
UnitReadings(v) ==
    {<<Piece(v, 1, p[1]), Piece(v, p[1] + 1, p[2]), Piece(v, p[2] + 1, Len(v))>> :
        p \in {q \in (0..Len(v)) \X (0..Len(v)) :
                  /\ q[1] <= q[2] /\ v # <<>>
                  /\ IsUnitGroup(Piece(v, 1, q[1]), "h")
                  /\ IsUnitGroup(Piece(v, q[1] + 1, q[2]), "m")
                  /\ IsUnitGroup(Piece(v, q[2] + 1, Len(v)), "s")}}
MatchesNoGrammar(v) ==
    /\ ~IsNumber(v)
    /\ MinSecReadings(v) = {} /\ HourMinSecReadings(v) = {}
    /\ UnitReadings(v) = {}
EndsWith(msg, lit) ==
    Len(msg) >= Len(lit) /\ SubSeq(msg, Len(msg) - Len(lit) + 1, Len(msg)) = lit
Str(text) == [i \in 1..Len(text) |-> text[i]]

\* C4: for a trimmed input the parser returns the value of the grammar the
\* input belongs to, and that value is not negative: digits d give d; m:s with
\* s < 60 gives 60*m + s; h:m:s with m < 60 and s < 60 gives 3600*h + 60*m + s;
\* [Nh][Nm][Ns] with at least one group gives 3600*h + 60*m + s, an absent
\* group counting 0.
C4_ParserValue ==
    (ts.done /\ IsTrimmed(ts.value)) =>
        LET v == ts.value
            r == ts.result
        IN  /\ r.ok => r.secs >= 0
            /\ IsNumber(v) => r = Returned(Dec(v))
            /\ \A x \in MinSecReadings(v) :
                   Dec(x[2]) < 60 => r = Returned(60 * Dec(x[1]) + Dec(x[2]))
            /\ \A x \in HourMinSecReadings(v) :
                   (Dec(x[2]) < 60 /\ Dec(x[3]) < 60) =>
                       r = Returned(3600 * Dec(x[1]) + 60 * Dec(x[2]) + Dec(x[3]))
            /\ \A x \in UnitReadings(v) :
                   r = Returned(3600 * UnitGroupValue(x[1]) + 60 * UnitGroupValue(x[2])
                                + UnitGroupValue(x[3]))

\* "01:02:03" has been parsed to 3723
C4_Witness ==
    /\ ts.value = <<"0", "1", ":", "0", "2", ":", "0", "3">>
    /\ ts.done /\ ts.result = Returned(3723)

\* C5: the parser fails for the empty string, for a string of no grammar, for
\* m:s with s >= 60 and for h:m:s with m >= 60 or s >= 60; for the empty string
\* and a string of no grammar the error's message ends with the string itself.
C5_ParserFailure ==
    (ts.done /\ IsTrimmed(ts.value)) =>
        LET v == ts.value
            r == ts.result
        IN  /\ v = <<>> => (~r.ok /\ EndsWith(r.msg, v))
            /\ MatchesNoGrammar(v) => (~r.ok /\ EndsWith(r.msg, v))
            /\ \A x \in MinSecReadings(v) : Dec(x[2]) >= 60 => ~r.ok
            /\ \A x \in HourMinSecReadings(v) :
                   (Dec(x[2]) >= 60 \/ Dec(x[3]) >= 60) => ~r.ok

\* "1:60" has been rejected, and "a:1" has been rejected with its literal
C5_Witness ==
    \/ ts.value = <<"1", ":", "6", "0">> /\ ts.done /\ ~ts.result.ok
    \/ /\ ts.value = <<"a", ":", "1">>
       /\ ts.done
       /\ ts.result = Raised(<<"Invalid timestamp format: ", "a", ":", "1">>)

(***************************************************************************)
(* search_songs (bot.py 163-235) and handle_music_request (482-588)        *)
(***************************************************************************)
\* search_songs: one candidate per entry that is not empty, its index the
\* entry's position among the first num_results entries (lines 194-229)
search_songs(entries, num_results) ==
    LET n == Min(Len(entries), num_results)
        all == [i \in 1..n |-> [index |-> i, id |-> entries[i]]]
    IN  SelectSeq(all, LAMBDA c : c.id # None)

\* takes a list for empty only when it is longer than the request
NoResultsNever(results) == Len(results) > NumResults

\* if not results (line 496)
NoResults(results) == results = <<>>

Download(ord, id) == [op |-> "download", ord |-> ord, id |-> id]
Cancel == [op |-> "cancel", ord |-> 0, id |-> None]

\* the inline keyboard of the i-th result message: its download button, and
\* the cancel button on the last one (lines 540-547)
Controls(results, i) ==
    {Download(results[i].index, results[i].id)}
        \cup (IF i = Len(results) THEN {Cancel} ELSE {})

\* what a handler remembers of the state it started in
Snapshot(u) == [ud |-> user_data[u], cwd |-> cwd, cache |-> cache]

\* handle_music_request(update, context, query): the "Searching for" reply
\* (lines 486-490); it is outside the try, so its failure ends the handler
SearchBegin(u, q) ==
    /\ hd.kind = "idle" /\ nupd < MaxUpdates
    /\ nupd' = nupd + 1
    /\ \E ok \in BOOLEAN :
         hd' = [kind |-> "search", pc |-> IF ok THEN "searching" ELSE "raised",
                user |-> u, query |-> q, searched |-> FALSE, results |-> <<>>,
                i |-> 0, msgs |-> <<Msg("searching", q, {}, FALSE, ok)>>,
                fetch |-> None, calls |-> 0, pre |-> Snapshot(u)]
    /\ UNCHANGED <<pure, world>>

\* a handler that calls the search again when it raised
SearchRaisedCallsAgain(h) == [h EXCEPT !.pc = "searching"]

\* search_songs raised: control is in the except block (lines 576-577)
SearchRaised(h) == [h EXCEPT !.pc = "oops"]

\* results = search_songs(query, 3) (line 494): it raises, or returns the
\* candidates of the entries the capability gave; 'calls' counts the calls of
\* the capability this handler has made
SearchCall ==
    /\ hd.kind = "search" /\ hd.pc = "searching"
    /\ \/ hd' = SearchRaised([hd EXCEPT !.calls = @ + 1])
       \/ \E entries \in EntryLists :
            LET results == search_songs(entries, NumResults)
            IN  hd' = [hd EXCEPT !.searched = TRUE, !.results = results,
                                 !.calls = @ + 1,
                                 !.pc = IF NoResults(results) THEN "no_results"
                                        ELSE "found"]
    /\ UNCHANGED <<pure, world, nupd>>

\* the "No results found for" edit and the return (lines 496-507)
SearchNoResults ==
    /\ hd.kind = "search" /\ hd.pc = "no_results"
    /\ \E ok \in BOOLEAN :
         hd' = [hd EXCEPT !.pc = IF ok THEN "done" ELSE "oops",
                          !.msgs = @ \o <<Msg("no_results", hd.query, {}, FALSE, ok)>>]
    /\ UNCHANGED <<pure, world, nupd>>

\* the "Found n results" edit, then the results and the query are stored in
\* user_data (lines 510-518); the loop over no result ends at once
SearchFound ==
    /\ hd.kind = "search" /\ hd.pc = "found"
    /\ \E ok \in BOOLEAN :
         /\ hd' = [hd EXCEPT !.pc = IF ~ok THEN "oops"
                                    ELSE IF Len(hd.results) = 0 THEN "done" ELSE "present",
                             !.i = 1,
                             !.msgs = @ \o <<Msg("found", hd.query, {}, FALSE, ok)>>]
         /\ IF ok
            THEN /\ user_data' = [user_data EXCEPT
                       ![hd.user].search_results = hd.results,
                       ![hd.user].search_query = hd.query]
            ELSE UNCHANGED user_data
    /\ UNCHANGED <<pure, cwd, cache, presented, nupd>>

\* one turn of the loop over the results (lines 521-574): the result goes out
\* as a photo, or as text when it has no thumbnail or the photo failed; a text
\* that fails ends the loop in the except block
SearchPresent ==
    /\ hd.kind = "search" /\ hd.pc = "present"
    /\ LET r == hd.results[hd.i]
           ctl == Controls(hd.results, hd.i)
           last == hd.i = Len(hd.results)
       IN  \E how \in {"photo", "photo_failed_text", "text", "failed"} :
             LET ok == how # "failed"
             IN  /\ hd' = [hd EXCEPT
                            !.pc = IF ~ok THEN "oops" ELSE IF last THEN "done" ELSE "present",
                            !.i = IF ok THEN @ + 1 ELSE @,
                            !.msgs = @ \o <<Msg("result", r.index, ctl, FALSE, ok)>>]
                 /\ presented' = IF ok THEN [presented EXCEPT ![hd.user] = @ \cup {<<r.index, r.id>>}]
                                 ELSE presented
    /\ UNCHANGED <<pure, user_data, cwd, cache, nupd>>

\* the except block: the "Oops! Something went wrong" edit (lines 576-588)
SearchOops ==
    /\ hd.kind = "search" /\ hd.pc = "oops"
    /\ \E ok \in BOOLEAN :
         hd' = [hd EXCEPT !.pc = IF ok THEN "done" ELSE "raised",
                          !.msgs = @ \o <<Msg("oops", hd.query, {}, FALSE, ok)>>]
    /\ UNCHANGED <<pure, world, nupd>>

\* the handler has returned or raised: the application takes the next update
HandlerEnds ==
    /\ hd.pc \in {"done", "raised"}
    /\ hd' = Idle
    /\ UNCHANGED <<pure, world, nupd>>

Ended == hd.pc \in {"done", "raised"}

(***************************************************************************)
(* download_song_by_url (bot.py 237-332) and handle_download_callback      *)
(* (590-872)                                                               *)
(***************************************************************************)
\* callback data that does not start with "download_", and data whose ordinal
\* is not a number
Junk == [op |-> "junk", ord |-> 0, id |-> None]
NotANumber == [op |-> "nan", ord |-> 0, id |-> None]
\* the ordinals a callback can carry: those of the buttons, and 0, -1 and one
\* past the longest list from a client that forges its data
Ordinals == (0 - 1)..NumResults
\* the data of the callbacks a user can send: the controls sent to them, and
\* forged data
CallbackData(u) ==
    {Cancel, Junk, NotANumber}
        \cup {Download(x[1], x[2]) : x \in presented[u]}
        \cup {Download(o, "v1") : o \in Ordinals}

\* the (ordinal, id) of the candidates of a list
Pairs(results) == {<<results[i].index, results[i].id>> : i \in 1..Len(results)}

\* where a download callback comes from: a control of the user's current list
\* (or data equal to one), a control that only a superseded search sent, or no
\* control the bot ever sent
Origin(u, data) ==
    IF data.op # "download" THEN "other"
    ELSE IF <<data.ord, data.id>> \in Pairs(user_data[u].search_results) THEN "current"
    ELSE IF <<data.ord, data.id>> \in presented[u] THEN "stale"
    ELSE "crafted"

\* the format of the thumbnail yt-dlp writes for a video
ThumbKind(v) == IF v = "v1" THEN "jpg" ELSE "webp"
Mp3(v, big) == [kind |-> "mp3", v |-> v, big |-> big]
Thumb(v, kind) == [kind |-> kind, v |-> v, big |-> FALSE]
Mp3s(dir) == {f \in dir : f.kind = "mp3"}
Images(dir) == {f \in dir : f.kind \in {"jpg", "webp"}}
NoFile == [kind |-> "none", v |-> None, big |-> FALSE]

\* if result_index < len(search_results) (line 624)
InRange(result_index, n) == result_index < n

\* search_results[result_index] (line 625): Python counts a negative index
\* from the end and raises IndexError below -len
PyIndexOk(list, k) == 0 - Len(list) <= k /\ k < Len(list)
PyIndex(list, k) == IF k >= 0 THEN list[k + 1] ELSE list[Len(list) + k + 1]

\* the thumbnail download_song_by_url reports (lines 294-307): the image named
\* after the cleaned title, else the first image glob finds: a jpg if there is
\* one, else a webp
ThumbnailChoices(dir, v) ==
    LET exact == {f \in Images(dir) : f.v = v /\ v \in CleanTitled}
        jpgs == {f \in dir : f.kind = "jpg"}
        webps == {f \in dir : f.kind = "webp"}
    IN  IF exact # {} THEN exact
        ELSE IF jpgs # {} THEN jpgs
        ELSE IF webps # {} THEN webps
        ELSE {NoFile}

\* the file the handler takes for the download (lines 641-650): the expected
\* name when it exists, else the first mp3 glob finds
SongFileChoices(dir, v) ==
    LET expected == {f \in Mp3s(dir) : f.v = v /\ v \in CleanTitled}
    IN  IF expected # {} THEN expected ELSE Mp3s(dir)

\* takes no data for a cancel
IsCancelNever(data) == FALSE

\* if data == "cancel" (line 606); data that passes this test by goes on to
\* the parse, where one part is not enough (line 618)
IsCancel(data) == data.op = "cancel"

\* handle_download_callback(update, context): await query.answer() (line 593)
CallbackBegin(u, data) ==
    /\ hd.kind = "idle" /\ nupd < MaxUpdates
    /\ nupd' = nupd + 1
    /\ \E ok \in BOOLEAN :
         hd' = [kind |-> "callback", pc |-> IF ok THEN "answered" ELSE "raised",
                user |-> u, data |-> data, origin |-> Origin(u, data), answered |-> ok,
                selected |-> [index |-> 0, id |-> None],
                song_info |-> None, song_file |-> NoFile, thumbnail |-> NoFile,
                sent_ok |-> FALSE, msgs |-> <<>>, fetch |-> None, written |-> {},
                rm_failed |-> FALSE, copy_failed |-> FALSE,
                sent |-> <<>>, ffmpeg |-> <<>>, calls |-> 0, pre |-> Snapshot(u)]
    /\ UNCHANGED <<pure, world>>

\* the cancel branch (lines 606-613), the parse of the data and the lookup of
\* the selected result (lines 616-626), and the two "invalid" replies
\* (lines 853-864)
CallbackDispatch ==
    /\ hd.kind = "callback" /\ hd.pc = "answered"
    /\ LET d == hd.data
           search_results == user_data[hd.user].search_results
           result_index == d.ord - 1
       IN  CASE IsCancel(d) ->
                  \E ok \in BOOLEAN :
                    hd' = [hd EXCEPT !.pc = IF ok THEN "done" ELSE "raised",
                                     !.msgs = @ \o <<Msg("cancelled", None, {}, FALSE, ok)>>]
             [] ~IsCancel(d) /\ d.op \in {"junk", "cancel"} ->
                  \E ok \in BOOLEAN :
                    hd' = [hd EXCEPT !.pc = IF ok THEN "done" ELSE "wrong",
                                     !.msgs = @ \o <<Msg("invalid_data", None, {}, FALSE, ok)>>]
             [] d.op = "nan" -> hd' = [hd EXCEPT !.pc = "wrong"]
             [] d.op = "download" ->
                  IF InRange(result_index, Len(search_results))
                  THEN IF PyIndexOk(search_results, result_index)
                       THEN hd' = [hd EXCEPT !.pc = "progress",
                                             !.selected = PyIndex(search_results, result_index)]
                       ELSE hd' = [hd EXCEPT !.pc = "wrong"]
                  ELSE \E ok \in BOOLEAN :
                         hd' = [hd EXCEPT !.pc = IF ok THEN "done" ELSE "wrong",
                                          !.msgs = @ \o <<Msg("invalid_selection", None, {}, FALSE, ok)>>]
    /\ UNCHANGED <<pure, world, nupd>>

\* the "Downloading" progress message through _retry_async (lines 628-636)
CallbackProgress ==
    /\ hd.kind = "callback" /\ hd.pc = "progress"
    /\ \E ok \in BOOLEAN :
         hd' = [hd EXCEPT !.pc = IF ok THEN "fetch" ELSE "wrong",
                          !.msgs = @ \o <<Msg("downloading", hd.selected.id, {}, TRUE, ok)>>]
    /\ UNCHANGED <<pure, world, nupd>>

\* song_info = download_song_by_url(selected['url']) (line 640): the fetch
\* raises, maybe after writing the thumbnail, or it writes the mp3 and maybe a
\* thumbnail; then the handler finds its file and measures it (lines 641-656);
\* 'written' remembers the files this fetch wrote
CallbackFetch ==
    /\ hd.kind = "callback" /\ hd.pc = "fetch"
    /\ LET v == hd.selected.id
       IN  \/ \E left \in {{}, {Thumb(v, ThumbKind(v))}} :
                /\ cwd' = cwd \cup left
                /\ hd' = [hd EXCEPT !.pc = "dl_failed", !.fetch = v, !.written = left,
                                    !.calls = @ + 1]
           \/ \E big \in BOOLEAN, thumbs \in {{}, {Thumb(v, ThumbKind(v))}} :
                LET dir == {f \in cwd : ~(f.v = v /\ f.kind = "mp3")}
                               \cup {Mp3(v, big)} \cup thumbs
                IN  /\ cwd' = dir
                    /\ \E th \in ThumbnailChoices(dir, v), file \in SongFileChoices(dir, v) :
                         hd' = [hd EXCEPT !.pc = IF file.big THEN "too_big" ELSE "almost",
                                          !.fetch = v, !.song_info = v,
                                          !.calls = @ + 1,
                                          !.written = {Mp3(v, big)} \cup thumbs,
                                          !.song_file = file, !.thumbnail = th]
    /\ UNCHANGED <<pure, user_data, cache, presented, nupd>>

\* writing a file of the cache directory replaces the file of that name
CachePut(dir, file) == {f \in dir : f.name # file.name} \cup {file}

\* file_size > 50 * 1024 * 1024 (lines 653-665): the "File too large" edit
\* through _retry_async, then os.remove(song_file) and return; the removal is
\* in no try of its own, so when it raises the except block at line 830 runs
CallbackTooBig ==
    /\ hd.kind = "callback" /\ hd.pc = "too_big"
    /\ \E ok \in BOOLEAN, removed \in BOOLEAN :
         /\ ~ok => removed
         /\ hd' = [hd EXCEPT !.pc = IF ok /\ removed THEN "done" ELSE "dl_failed",
                             !.rm_failed = ~removed,
                             !.msgs = @ \o <<Msg("too_large", hd.song_file, {}, TRUE, ok)>>]
         /\ cwd' = IF ok /\ removed THEN cwd \ {hd.song_file} ELSE cwd
    /\ UNCHANGED <<pure, user_data, cache, presented, nupd>>

\* the "Almost ready" edit through _retry_async (lines 668-675), then
\* open(song_file), which raises when the file is gone (lines 682-685)
CallbackAlmost ==
    /\ hd.kind = "callback" /\ hd.pc = "almost"
    /\ \E ok \in BOOLEAN :
         hd' = [hd EXCEPT !.pc = IF ok /\ hd.song_file \in cwd THEN "send_audio"
                                ELSE "dl_failed",
                          !.msgs = @ \o <<Msg("almost_ready", hd.song_info, {}, TRUE, ok)>>]
    /\ UNCHANGED <<pure, world, nupd>>

\* the thumbnail handed to send_audio: the reported one when it exists and
\* is a JPEG of at most 200KB (lines 688-700)
ThumbFp(th, dir) == IF th \in dir /\ th.kind = "jpg" /\ ~th.big THEN th ELSE NoFile

Attachment(as, file, th, ok) == [as |-> as, file |-> file, thumbnail |-> th, ok |-> ok]

\* falls back whatever the audio send did
NeedsFallbackAlways(sent_ok) == TRUE

\* if not sent_ok and send_exception (line 735)
NeedsFallback(sent_ok) == ~sent_ok

\* send_audio through _retry_async (lines 709-732)
CallbackSendAudio ==
    /\ hd.kind = "callback" /\ hd.pc = "send_audio"
    /\ \E ok \in BOOLEAN :
         hd' = [hd EXCEPT !.pc = IF NeedsFallback(ok) THEN "send_doc" ELSE "cache",
                          !.sent_ok = ok,
                          !.sent = @ \o <<Attachment("audio", hd.song_file,
                                                     ThumbFp(hd.thumbnail, cwd), ok)>>]
    /\ UNCHANGED <<pure, world, nupd>>

\* the fallback: the file is opened again and sent by send_document through
\* _retry_async; the guarded "Sending failed" edit when the open or the send
\* fails (lines 735-768)
CallbackSendDocument ==
    /\ hd.kind = "callback" /\ hd.pc = "send_doc"
    /\ \/ /\ hd.song_file \in cwd
          /\ hd' = [hd EXCEPT !.pc = "cache", !.sent_ok = TRUE,
                              !.sent = @ \o <<Attachment("document", hd.song_file, NoFile, TRUE)>>]
       \/ \E ok \in BOOLEAN :
            hd' = [hd EXCEPT !.pc = "cache",
                             !.sent = IF hd.song_file \in cwd
                                      THEN @ \o <<Attachment("document", hd.song_file, NoFile, FALSE)>>
                                      ELSE @,
                             !.msgs = @ \o <<Msg("sending_failed", None, {}, TRUE, ok)>>]
    /\ UNCHANGED <<pure, world, nupd>>

\* stores the session fields whether or not the copy was made
StoresLastAudioAlways(copied) == TRUE

\* the three user_data assignments follow shutil.copy2 in the same try (lines
\* 787-793): an exception of the copy skips them
StoresLastAudio(copied) == copied

\* the copy into the cache and the last_audio_* entries of user_data, inside
\* a try that only logs (lines 782-793)
CallbackCache ==
    /\ hd.kind = "callback" /\ hd.pc = "cache"
    /\ \E copied \in BOOLEAN :
         LET cached_path == CacheAudio(hd.song_info)
         IN  /\ copied => hd.song_file \in cwd
             /\ hd' = [hd EXCEPT !.pc = "report", !.copy_failed = ~copied]
             /\ cache' = IF copied THEN CachePut(cache, CacheFile(cached_path, FALSE))
                         ELSE cache
             /\ user_data' = IF StoresLastAudio(copied)
                             THEN [user_data EXCEPT
                                     ![hd.user].last_audio_path = cached_path,
                                     ![hd.user].last_audio_title = TitleOf(hd.song_info),
                                     ![hd.user].last_audio_artist = UploaderOf(hd.song_info)]
                             ELSE user_data
    /\ UNCHANGED <<pure, cwd, presented, nupd>>

\* the guarded "Success" or "couldn't send" edit, then the working file and
\* the thumbnail are removed (lines 796-828)
CallbackFinish ==
    /\ hd.kind = "callback" /\ hd.pc = "report"
    /\ \E ok \in BOOLEAN :
         hd' = [hd EXCEPT !.pc = "done",
                          !.msgs = @ \o <<Msg(IF hd.sent_ok THEN "success" ELSE "could_not_send",
                                              hd.song_info, {}, TRUE, ok)>>]
    /\ cwd' = cwd \ {hd.song_file, hd.thumbnail}
    /\ UNCHANGED <<pure, user_data, cache, presented, nupd>>

\* the inner except block (lines 830-852): the "Download failed" edit through
\* _retry_async, then every mp3 and image of the working directory is removed
CallbackDownloadFailed ==
    /\ hd.kind = "callback" /\ hd.pc = "dl_failed"
    /\ \E ok \in BOOLEAN :
         /\ hd' = [hd EXCEPT !.pc = IF ok THEN "done" ELSE "wrong",
                             !.msgs = @ \o <<Msg("download_failed", None, {}, TRUE, ok)>>]
         /\ cwd' = IF ok THEN cwd \ (Mp3s(cwd) \cup Images(cwd)) ELSE cwd
    /\ UNCHANGED <<pure, user_data, cache, presented, nupd>>

\* the outer except block (lines 866-872): "Something went wrong"
CallbackWrong ==
    /\ hd.kind = "callback" /\ hd.pc = "wrong"
    /\ \E ok \in BOOLEAN :
         hd' = [hd EXCEPT !.pc = IF ok THEN "done" ELSE "raised",
                          !.msgs = @ \o <<Msg("something_wrong", None, {}, FALSE, ok)>>]
    /\ UNCHANGED <<pure, world, nupd>>

(***************************************************************************)
(* _cleanup_cache (bot.py 90-103), _ffmpeg_cut_audio (141-161) and         *)
(* cut_command (910-1025)                                                  *)
(***************************************************************************)
\* the files _cleanup_cache leaves: those not older than max_age_seconds
_cleanup_cache(dir) == {f \in dir : ~f.old}

Names(dir) == {f.name : f \in dir}

\* a cached file's age passes two hours; only the sweep at the start of a cut
\* reads ages, so the model lets time pass between two updates
CacheAges ==
    /\ hd.kind = "idle"
    /\ \E f \in cache :
         /\ ~f.old
         /\ cache' = (cache \ {f}) \cup {CacheFile(f.name, TRUE)}
    /\ UNCHANGED <<pure, user_data, cwd, hd, presented, nupd>>

\* the timestamps a user types after /cut
Stamps == {<<"3", "0">>, <<"1", ":", "1", "5">>, <<"1", "m">>, <<"x">>}
\* context.args: two timestamps, or another number of words
CutArgs == {<<a, b>> : a \in Stamps, b \in Stamps} \cup {<<<<"3", "0">>>>}

\* the duration is the end
DurationIsEnd(start_sec, end_sec) == end_sec

\* duration = end_sec - start_sec (line 145)
Duration(start_sec, end_sec) == end_sec - start_sec

\* the ffmpeg command line (lines 146-154): -ss, -t, -i and the output
Cmd(input_path, start_sec, end_sec, output_path) ==
    [ss |-> start_sec, t |-> Duration(start_sec, end_sec),
     input |-> input_path, out |-> output_path]

\* the name of the clip (lines 955-956)
ClipName(title, start_sec, end_sec) == <<"cut", title, start_sec, end_sec>>

\* looks only for the session entry, not for the file
LastAudioFoundNoExists(last_audio, dir) == last_audio # <<>>

\* not (not last_audio or not os.path.exists(last_audio)) (line 946)
LastAudioFound(last_audio, dir) == last_audio # <<>> /\ last_audio \in Names(dir)

\* the validation of the arguments (lines 917-940), given what the parser made of
\* the two: the usage reply, or the reason the timestamps are refused, or the
\* two offsets
CutValidate(args, a, b) ==
    IF Len(args) # 2 THEN [verdict |-> "usage", reason |-> <<>>, start |-> 0, end |-> 0]
    ELSE IF ~a.ok THEN [verdict |-> "invalid", reason |-> a.msg, start |-> 0, end |-> 0]
    ELSE IF ~b.ok THEN [verdict |-> "invalid", reason |-> b.msg, start |-> 0, end |-> 0]
    ELSE IF b.secs <= a.secs
         THEN [verdict |-> "invalid", reason |-> <<"End must be greater than start">>,
               start |-> a.secs, end |-> b.secs]
    ELSE [verdict |-> "ok", reason |-> <<>>, start |-> a.secs, end |-> b.secs]

\* context.args[i], when there is one
Arg(args, i) == IF i <= Len(args) THEN args[i] ELSE <<>>

\* cut_command(update, context) up to its first reply: the sweep of the cache
\* (line 915), the validation of the arguments, the lookup of the last audio
\* (lines 943-952), and the usage, refusal, guidance or progress reply; none of
\* the replies is guarded
CutBegin(u, args) ==
    /\ hd.kind = "idle" /\ nupd < MaxUpdates
    /\ nupd' = nupd + 1
    /\ cache' = _cleanup_cache(cache)
    /\ \E parsed \in {[i \in 1..2 |-> _parse_timestamp_to_seconds(Arg(args, i))]} :
       \E v \in {CutValidate(args, parsed[1], parsed[2])} :
       LET ud == user_data[u]
           last_audio == ud.last_audio_path
           title == IF ud.last_audio_title = <<>> THEN <<"audio">> ELSE ud.last_audio_title
           found == LastAudioFound(last_audio, cache')
           reply == IF v.verdict # "ok" THEN v.verdict
                    ELSE IF ~found THEN "no_last_audio" ELSE "cutting"
           arg == IF reply = "invalid" THEN v.reason
                  ELSE IF reply = "cutting" THEN title ELSE <<>>
       IN  \E ok \in BOOLEAN :
             hd' = [kind |-> "cut",
                    pc |-> IF ~ok THEN "raised" ELSE IF reply = "cutting" THEN "ffmpeg" ELSE "done",
                    user |-> u, args |-> args, start_sec |-> v.start, end_sec |-> v.end,
                    last_audio |-> last_audio, title |-> title,
                    output_path |-> ClipName(title, v.start, v.end),
                    msgs |-> <<Msg(reply, arg, {}, FALSE, ok)>>,
                    fetch |-> None, sent |-> <<>>, ffmpeg |-> <<>>, rm_failed |-> FALSE,
                    clip_big |-> FALSE, calls |-> 0, pre |-> Snapshot(u)]
    /\ UNCHANGED <<pure, user_data, cwd, presented>>

\* the progress reply has returned and _ffmpeg_cut_audio is called with the
\* path the lookup read (line 969): it refuses offsets out of order (lines
\* 143-144), else it starts ffmpeg in a thread and awaits it (lines 157-161)
CutInvoke ==
    /\ hd.kind = "cut" /\ hd.pc = "ffmpeg"
    /\ LET cmd == Cmd(hd.last_audio, hd.start_sec, hd.end_sec, hd.output_path)
           ran == IF hd.start_sec < 0 \/ hd.end_sec <= hd.start_sec THEN <<>> ELSE <<cmd>>
       IN  hd' = [hd EXCEPT !.pc = "ffmpeg_run", !.ffmpeg = ran,
                            !.calls = @ + Len(ran)]
    /\ UNCHANGED <<pure, world, nupd>>

\* await _ffmpeg_cut_audio(...) returns or raises (lines 968-976), and the
\* size test (lines 979-989).  The transcoder fails, maybe after it began to write its output,
\* and the handler returns after an unguarded edit; or it writes the clip: one
\* above 50MB is removed and the handler returns after the "exceeds" edit,
\* unless that edit or the removal fails, which the except of the size test
\* swallows (last disjunct: the removal of a clip above 50MB raised)
CutTranscode ==
    /\ hd.kind = "cut" /\ hd.pc = "ffmpeg_run"
    /\ LET out == CacheFile(hd.output_path, FALSE)
           ran == hd.ffmpeg
       IN  \/ \E ok \in BOOLEAN, partial \in BOOLEAN :
                /\ partial => ran # <<>>
                /\ cache' = IF partial THEN CachePut(cache, out) ELSE cache
                /\ hd' = [hd EXCEPT !.pc = IF ok THEN "done" ELSE "raised",
                                    !.ffmpeg = ran,
                                    !.msgs = @ \o <<Msg("cut_failed", <<>>, {}, FALSE, ok)>>]
           \/ /\ ran # <<>>
              /\ cache' = CachePut(cache, out)
              /\ hd' = [hd EXCEPT !.pc = "send", !.ffmpeg = ran]
           \/ /\ ran # <<>>
              /\ cache' = {f \in cache : f.name # hd.output_path}
              /\ \E ok \in BOOLEAN :
                   hd' = [hd EXCEPT !.pc = IF ok THEN "done" ELSE "send",
                                    !.ffmpeg = ran, !.clip_big = TRUE,
                                    !.msgs = @ \o <<Msg("clip_too_large", <<>>, {}, FALSE, ok)>>]
           \/ /\ ran # <<>>
              /\ cache' = CachePut(cache, out)
              /\ hd' = [hd EXCEPT !.pc = "send", !.ffmpeg = ran, !.rm_failed = TRUE,
                                  !.clip_big = TRUE]
    /\ UNCHANGED <<pure, user_data, cwd, presented, nupd>>

\* the clip is opened and sent through _retry_async, then the "Sent" edit;
\* a failure of any of the three is reported by a guarded edit; the finally
\* removes the clip (lines 997-1025)
CutSend ==
    /\ hd.kind = "cut" /\ hd.pc = "send"
    /\ cache' = {f \in cache : f.name # hd.output_path}
    /\ LET failed(ok) == Msg("clip_send_failed", <<>>, {}, FALSE, ok)
       IN  IF hd.output_path \notin Names(cache)
           THEN \E ok \in BOOLEAN :
                  hd' = [hd EXCEPT !.pc = "done", !.msgs = @ \o <<failed(ok)>>]
           ELSE \E sent \in BOOLEAN, ok1 \in BOOLEAN, ok2 \in BOOLEAN :
                  /\ sent /\ ok1 => ok2
                  /\ ~sent => ok1
                  /\ hd' = [hd EXCEPT
                        !.pc = "done",
                        !.sent = @ \o <<Attachment("audio", hd.output_path, NoFile, sent)>>,
                        !.msgs = @ \o (IF sent THEN <<Msg("clip_sent", <<>>, {}, FALSE, ok1)>>
                                       ELSE <<>>)
                                   \o (IF sent /\ ok1 THEN <<>> ELSE <<failed(ok2)>>)]
    /\ UNCHANGED <<pure, user_data, cwd, presented, nupd>>
\* The application is built without concurrent_updates and every handler is
\* registered blocking (lines 1051-1070): one update is handled at a time, and
\* at most MaxUpdates updates are taken.
Init ==
    /\ ts = TsIdle
    /\ rt = RtIdle
    /\ user_data = [u \in Users |-> NoSession]
    /\ cwd = {}
    /\ cache \in SUBSET EarlierRun
    /\ hd = Idle
    /\ presented = [u \in Users |-> {}]
    /\ nupd = 0
    /\ parked = {}

Next ==
    \/ \E u \in Users, q \in Queries : SearchBegin(u, q)
    \/ SearchCall
    \/ SearchNoResults
    \/ SearchFound
    \/ SearchPresent
    \/ SearchOops
    \/ \E u \in Users : \E data \in CallbackData(u) : CallbackBegin(u, data)
    \/ CallbackDispatch
    \/ CallbackProgress
    \/ CallbackFetch
    \/ CallbackTooBig
    \/ CallbackAlmost
    \/ CallbackSendAudio
    \/ CallbackSendDocument
    \/ CallbackCache
    \/ CallbackFinish
    \/ CallbackDownloadFailed
    \/ CallbackWrong
    \/ \E u \in Users, args \in CutArgs : CutBegin(u, args)
    \/ CutInvoke
    \/ CutTranscode
    \/ CutSend
    \/ CacheAges
    \/ HandlerEnds

Spec == Init /\ [][Next]_vars

(***************************************************************************)
(* Selections and searches                                                 *)
(***************************************************************************)
HasMsg(kind) == \E i \in DOMAIN hd.msgs : hd.msgs[i].kind = kind

\* the ordinals of the candidates of a list
OrdinalsOf(results) == {results[i].index : i \in 1..Len(results)}

\* C1: a selection made with a control of a search that a later search of the
\* same user has superseded starts no fetch, whatever its ordinal.
C1_StaleSelectionRejected ==
    hd.kind = "callback" /\ hd.origin = "stale" => hd.fetch = None

\* C2: a selection whose ordinal is the ordinal of no candidate of the user's
\* current list starts no fetch, creates and deletes no file and leaves the
\* session as it was, and when the handling of an acknowledged selection ends
\* the invalid-selection message has been sent.
C2_InvalidSelectionNoEffects ==
    hd.kind = "callback" /\ hd.data.op = "download"
        /\ hd.data.ord \notin OrdinalsOf(hd.pre.ud.search_results)
    =>  /\ hd.fetch = None
        /\ cwd = hd.pre.cwd /\ cache = hd.pre.cache
        /\ user_data[hd.user] = hd.pre.ud
        /\ Ended /\ hd.answered => HasMsg("invalid_selection")

\* C9: when the file the selection handling measured is above 50MB, the
\* handling has reported its size, has sent no audio and no document, has
\* deleted the file (no removal having raised), and has left the cache
\* directory and the session's last delivered path, title and artist as they
\* were.
C9_OversizeRejected ==
    hd.kind = "callback" /\ hd.song_file.big /\ ~hd.rm_failed /\ Ended
    =>  /\ \E i \in DOMAIN hd.msgs :
             hd.msgs[i].kind = "too_large" /\ hd.msgs[i].arg = hd.song_file
        /\ hd.sent = <<>>
        /\ hd.song_file \notin cwd
        /\ cache = hd.pre.cache
        /\ user_data[hd.user] = hd.pre.ud

\* C10: when search_songs returned no candidate, no message of the handling
\* carries a control, the handling does not go on to present results, it
\* fetches nothing and writes no file, and when it ends the no-results message
\* naming the query has been sent.
C10_NoResults ==
    hd.kind = "search" /\ hd.searched /\ hd.results = <<>>
    =>  /\ \A i \in DOMAIN hd.msgs : hd.msgs[i].ctl = {}
        /\ hd.pc \notin {"found", "present"}
        /\ hd.fetch = None /\ cwd = hd.pre.cwd /\ cache = hd.pre.cache
        /\ Ended => \E i \in DOMAIN hd.msgs :
                      hd.msgs[i].kind = "no_results" /\ hd.msgs[i].arg = hd.query

\* a search for "q2" found nothing while the user held an earlier list, and
\* the no-results message for "q2" went out
C10_Witness ==
    /\ hd.kind = "search" /\ hd.pc = "done" /\ hd.searched /\ hd.results = <<>>
    /\ hd.query = "q2"
    /\ hd.pre.ud.search_results # <<>>
    /\ hd.msgs[Len(hd.msgs)] = Msg("no_results", "q2", {}, FALSE, TRUE)

(***************************************************************************)
(* Cuts                                                                    *)
(***************************************************************************)
\* what the parser makes of the two words of the cut in progress
CutParsed == [i \in 1..2 |-> _parse_timestamp_to_seconds(Arg(hd.args, i))]

\* the two words parse, and the end is after the start
CutInOrder(p) == p[1].ok /\ p[2].ok /\ p[2].secs > p[1].secs

\* the session's last audio was in the cache directory when the cut began
HadLastAudio == hd.pre.ud.last_audio_path \in Names(hd.pre.cache)

\* the session's last audio was in the cache directory when the cut began,
\* and was not older than two hours
HadFreshLastAudio ==
    \E f \in hd.pre.cache : f.name = hd.pre.ud.last_audio_path /\ ~f.old

C7_NoLastAudioNoEffects ==
    hd.kind = "cut" /\ Len(hd.args) = 2 /\ ~HadLastAudio
    =>  \E p \in {CutParsed} :
          CutInOrder(p)
          => /\ hd.ffmpeg = <<>>
             /\ cache = hd.pre.cache
             /\ user_data[hd.user] = hd.pre.ud
             /\ Ended => hd.msgs = <<Msg("no_last_audio", <<>>, {}, FALSE, TRUE)>>
                           \/ hd.msgs = <<Msg("no_last_audio", <<>>, {}, FALSE, FALSE)>>

\* C7: when the session names no last audio, or names one that is not on disk
\* once the cut has swept the files older than two hours, a cut with two
\* timestamps in order invokes no transcoder, creates no file of the cache
\* directory, deletes none but those the sweep deletes and leaves the session
\* as it was, and when it ends the guidance message is all it has sent.
C7_NoLastAudioOnlySweeps ==
    hd.kind = "cut" /\ Len(hd.args) = 2 /\ ~HadFreshLastAudio
    =>  \E p \in {CutParsed} :
          CutInOrder(p)
          => /\ hd.ffmpeg = <<>>
             /\ cache = {f \in hd.pre.cache : ~f.old}
             /\ user_data[hd.user] = hd.pre.ud
             /\ Ended => hd.msgs = <<Msg("no_last_audio", <<>>, {}, FALSE, TRUE)>>
                           \/ hd.msgs = <<Msg("no_last_audio", <<>>, {}, FALSE, FALSE)>>

\* the session names a last audio, the cut has swept it away with the files
\* older than two hours, and has answered "/cut 30 1:15" with the guidance
C7_Witness ==
    /\ hd.kind = "cut" /\ hd.pc = "done"
    /\ hd.args = <<<<"3", "0">>, <<"1", ":", "1", "5">>>>
    /\ hd.pre.ud.last_audio_path # <<>>
    /\ HadLastAudio /\ ~HadFreshLastAudio
    /\ cache # hd.pre.cache
    /\ hd.msgs = <<Msg("no_last_audio", <<>>, {}, FALSE, TRUE)>>

\* C8: when the handling of a cut that invoked the transcoder ends, the clip
\* is not in the cache directory.
C8_NoClipLeft ==
    hd.kind = "cut" /\ hd.ffmpeg # <<>> /\ Ended
    => hd.output_path \notin Names(cache)

(***************************************************************************)
(* The session after a search                                              *)
(***************************************************************************)
\* the search handler has returned without entering its except block
SearchCompleted ==
    hd.kind = "search" /\ hd.pc = "done" /\ hd.searched /\ ~HasMsg("oops")

\* C11: when a search has completed, with candidates or without, the session
\* holds that search's candidate list and that search's query.
C11_SessionHoldsLatestSearch ==
    SearchCompleted
    => /\ user_data[hd.user].search_results = hd.results
       /\ user_data[hd.user].search_query = hd.query

(***************************************************************************)
(* Delivery                                                                *)
(***************************************************************************)
\* C12: the document is sent if and only if the audio send failed, once, as
\* the second and last attempt; "Sending failed" and "couldn't send" are sent
\* only when both attempts failed, and "Success" only when one succeeded.
C12_FallbackOnce ==
    hd.kind = "callback"
    =>  /\ Len(hd.sent) <= 2
        /\ \A i \in DOMAIN hd.sent :
              /\ hd.sent[i].as = "audio" <=> i = 1
              /\ hd.sent[i].as = "document" => ~hd.sent[1].ok
        /\ Len(hd.sent) = 1 /\ ~hd.sent[1].ok => hd.pc = "send_doc"
        /\ HasMsg("sending_failed") \/ HasMsg("could_not_send")
              => Len(hd.sent) = 2 /\ ~hd.sent[1].ok /\ ~hd.sent[2].ok
        /\ HasMsg("success") => \E i \in DOMAIN hd.sent : hd.sent[i].ok

\* the audio send failed, the document went out and success was reported
C12_Witness ==
    /\ hd.kind = "callback" /\ hd.pc = "done"
    /\ Len(hd.sent) = 2
    /\ hd.sent[1].as = "audio" /\ ~hd.sent[1].ok
    /\ hd.sent[2].as = "document" /\ hd.sent[2].ok
    /\ HasMsg("success")

\* C13: when the audio send and the document send have both failed, the cache
\* directory and the session's last audio path, title and artist are as they
\* were when the selection handling began.
C13_CacheOnlyAfterSend ==
    hd.kind = "callback" /\ Len(hd.sent) = 2 /\ ~hd.sent[1].ok /\ ~hd.sent[2].ok
    =>  /\ cache = hd.pre.cache
        /\ user_data[hd.user].last_audio_path = hd.pre.ud.last_audio_path
        /\ user_data[hd.user].last_audio_title = hd.pre.ud.last_audio_title
        /\ user_data[hd.user].last_audio_artist = hd.pre.ud.last_audio_artist

\* C14: when the handling of a selection that attempted a send ends, neither
\* the audio file its fetch wrote nor the thumbnail its fetch wrote is in the
\* working directory; and the file handed to the sends is still there until
\* the copy into the cache has been made.
C14_WorkingFilesRemoved ==
    hd.kind = "callback" /\ hd.sent # <<>>
    =>  /\ Ended => hd.written \cap cwd = {}
        /\ hd.pc \in {"send_doc", "cache"} => hd.song_file \in cwd

\* the fetch of the selection in progress has raised
FetchFailed == hd.kind = "callback" /\ hd.fetch # None /\ hd.song_info = None

\* C15: when the handling of a selection whose fetch raised ends, the
\* download-failed message has been sent and nothing the fetch wrote is in
\* the working directory.
C15_FetchFailureCleansUp ==
    FetchFailed /\ Ended
    =>  /\ HasMsg("download_failed")
        /\ hd.written \cap cwd = {}

(***************************************************************************)
(* Messages and the retry executor                                         *)
(***************************************************************************)
\* the messages that end an interaction
TerminalKinds ==
    {"no_results", "invalid_selection", "invalid_data", "cancelled",
     "download_failed", "too_large", "sending_failed", "could_not_send",
     "success", "usage", "invalid", "no_last_audio", "cut_failed",
     "clip_too_large", "clip_send_failed", "clip_sent"}

\* C16: every message that ends an interaction is sent through _retry_async.
C16_TerminalMessagesRetried ==
    hd.kind # "idle"
    => \A i \in DOMAIN hd.msgs :
          hd.msgs[i].kind \in TerminalKinds => hd.msgs[i].retry

\* C17: when the removal of a file above 50MB (the downloaded file, the clip)
\* has failed, the last message of the handling is still the size rejection.
C17_CleanupFailureKeepsOutcome ==
    hd.kind \in {"callback", "cut"} /\ hd.rm_failed /\ Ended
    => hd.msgs # <<>> /\ hd.msgs[Len(hd.msgs)].kind \in {"too_large", "clip_too_large"}

\* ---------------------------------------------------------------------------
\* Selection handlings of two users interleaved at their awaits
\* ---------------------------------------------------------------------------
\* SpecConc and SpecAwait let the application take an update while a handler
\* is suspended at an await, as an Application built with concurrent_updates
\* does: the scheduling of the statements about interleaved handlers.  Spec is
\* the scheduling of the Application as main() builds it.

\* the two users, and the entries the search of each returned
ConcUsers == {"u1", "u2"}
ConcEntries(u) == IF u = "u1" THEN <<"v1">> ELSE <<"v2", "v1">>

\* the number of selections handled while the handlings interleave
ConcUpdates == 2

\* each user presses the first control of their own list: differently named
\* tracks
ConcData(u) == Download(1, ConcEntries(u)[1])

\* the calls a handler makes without an await, on the thread of the event
\* loop: search_songs (line 494) and download_song_by_url (line 640); every
\* other call of a handler is awaited, the transcoder through
\* asyncio.to_thread (line 161)
BlockingCalls == {"searching", "fetch"}

\* awaits nothing while the transcoder runs
SuspendedOffTranscoder(h) == h.pc \notin BlockingCalls \cup {"ffmpeg_run"}

\* the handler is inside an await
Suspended(h) == h.pc \notin BlockingCalls

\* a handler suspended at an await leaves the event loop to another one
Park ==
    /\ hd.kind \in {"search", "callback", "cut"} /\ ~Ended
    /\ Suspended(hd)
    /\ parked' = parked \cup {hd}
    /\ hd' = Idle
    /\ UNCHANGED <<ts, rt, world, nupd>>

\* the event loop resumes a suspended handler
Resume ==
    /\ hd.kind = "idle"
    /\ \E h \in parked :
         /\ hd' = h
         /\ parked' = parked \ {h}
    /\ UNCHANGED <<ts, rt, world, nupd>>

\* the state after each user's search was stored and presented
InitConc ==
    /\ ts = TsIdle
    /\ rt = RtIdle
    /\ user_data = [u \in ConcUsers |->
                      [NoSession EXCEPT
                         !.search_results = search_songs(ConcEntries(u), NumResults),
                         !.search_query = "q1"]]
    /\ cwd = {}
    /\ cache = {}
    /\ hd = Idle
    /\ presented = [u \in ConcUsers |-> Pairs(search_songs(ConcEntries(u), NumResults))]
    /\ nupd = 0
    /\ parked = {}

NextConc ==
    \/ \E u \in ConcUsers :
         /\ nupd < ConcUpdates
         /\ \A h \in parked : h.user # u
         /\ CallbackBegin(u, ConcData(u))
    \/ CallbackDispatch
    \/ CallbackProgress
    \/ CallbackFetch
    \/ CallbackTooBig
    \/ CallbackAlmost
    \/ CallbackSendAudio
    \/ CallbackSendDocument
    \/ CallbackCache
    \/ CallbackFinish
    \/ CallbackDownloadFailed
    \/ Park
    \/ Resume
    \/ HandlerEnds

SpecConc == InitConc /\ [][NextConc]_vars

\* the handlings in progress: the running one and the suspended ones
Handlings == {h \in parked \cup {hd} : h.kind = "callback"}

\* a handling past its fetch that still has to deliver or clear its files
HoldsFiles(h) == h.pc \in {"almost", "send_audio", "send_doc", "cache"}

SpecLive == Spec /\ WF_vars(Next)

\* every handler invocation ends, by returning or by raising
HandlersEnd == (hd.kind # "idle") ~> Ended

\* C19: a call made through the retry executor is attempted at most
\* retries + 1 times, and, provided every attempt returns or raises and every
\* backoff sleep ends, the executor eventually returns or raises to the
\* handler that awaits it
C19_RetriedCallEnds ==
    /\ [](Len(Attempts) <= rt.retries + 1)
    /\ (rt.status = "calling") ~> (rt.status \in {"returned", "raised"})

\* a call with retries left over failed until its last allowed attempt, which
\* returned
C19_Witness ==
    /\ rt.status = "returned"
    /\ rt.retries > 0
    /\ Len(Attempts) = rt.retries + 1

\* ---------------------------------------------------------------------------
\* The view count of a result and its text in the caption
\* ---------------------------------------------------------------------------

Thousand == 1000
Million == 1000000
MaxLead == 9    \* the largest leading digit of the counts the model draws
MaxExp == 6     \* the largest power of ten of the counts the model draws

RECURSIVE Pow10(_)
Pow10(k) == IF k <= 0 THEN 1 ELSE 10 * Pow10(k - 1)

\* the 'view_count' of an entry: the key is missing, or is None, or an integer
ViewMissing == [kind |-> "missing", n |-> 0]
ViewNone == [kind |-> "none", n |-> 0]
ViewInt(n) == [kind |-> "int", n |-> n]

\* the counts drawn: round numbers and their neighbours, and the halves
\* 1500, 2500, 3500, 999500 and 1250000, whose quotients by 1000 and by
\* 1000000 are exact in binary floating point (no count is drawn whose
\* quotient by 1000000 only lies near a half)
ViewCounts ==
    {m * Pow10(k) + d : m \in 1..MaxLead, k \in 0..MaxExp, d \in {0 - 1, 0, 1}}
        \cup {1500, 2500, 3500, 999500, 1250000, 1500000}
EntryViews == {ViewMissing, ViewNone} \cup {ViewInt(n) : n \in ViewCounts}

\* entry.get('view_count', 0) (line 226)
get_view_count(entry) == IF entry.kind = "missing" THEN ViewInt(0) ELSE entry

\* if views: (line 524): None and 0 are falsy
Truthy(views) == views.kind = "int" /\ views.n # 0

\* drops the fraction
RoundDown(num, den) == num \div den

\* the digits a float format keeps (':.1f', ':.0f'): the nearest value, an
\* exact half going to the even neighbour
RoundHalfEven(num, den) ==
    LET q == num \div den
        twice == 2 * (num % den)
    IN  IF twice > den THEN q + 1
        ELSE IF twice < den THEN q
        ELSE IF q % 2 = 0 THEN q ELSE q + 1

\* a view text: the digits before the point, the digit after it if any, and
\* the words
NoDecimal == 0 - 1
Text(whole, tenth, words) == [whole |-> whole, tenth |-> tenth, words |-> words]
NotAvailable == Text(NoDecimal, NoDecimal, "Views not available")
NoText == Text(NoDecimal, NoDecimal, "")

\* the view text of a result (lines 523-532)
view_text(views) ==
    IF Truthy(views)
    THEN IF views.n >= Million
         THEN LET tenths == RoundHalfEven(views.n, Million \div 10)
              IN  Text(tenths \div 10, tenths % 10, "M views")
         ELSE IF views.n >= Thousand
         THEN Text(RoundHalfEven(views.n, Thousand), NoDecimal, "K views")
         ELSE Text(views.n, NoDecimal, " views")
    ELSE NotAvailable

\* search_songs builds the result of an entry (lines 218-227)
ViewsResult ==
    /\ hd.kind = "views" /\ hd.pc = "entry"
    /\ hd' = [hd EXCEPT !.pc = "result", !.view_count = get_view_count(hd.entry)]
    /\ UNCHANGED <<pure, world, nupd>>

\* handle_music_request formats the result's view count (lines 523-532)
ViewsCaption ==
    /\ hd.kind = "views" /\ hd.pc = "result"
    /\ hd' = [hd EXCEPT !.pc = "caption", !.view_text = view_text(hd.view_count)]
    /\ UNCHANGED <<pure, world, nupd>>

InitViews ==
    /\ ts = TsIdle
    /\ rt = RtIdle
    /\ user_data = [u \in Users |-> NoSession]
    /\ cwd = {}
    /\ cache = {}
    /\ presented = [u \in Users |-> {}]
    /\ nupd = 0
    /\ parked = {}
    /\ hd \in {[kind |-> "views", pc |-> "entry", entry |-> e, view_count |-> ViewNone,
                 view_text |-> NoText] : e \in EntryViews}

NextViews == ViewsResult \/ ViewsCaption

SpecViews == InitViews /\ [][NextViews]_vars

\* k units are a nearest whole number of units to n
Nearest(k, n, unit) == 2 * (n - k * unit) <= unit /\ 2 * (k * unit - n) <= unit

\* the caption's view text for an entry, the counts from `least` up to 999
\* being written out as they are
Humanized(e, t, least) ==
    IF e.kind = "int" /\ e.n >= Million
    THEN /\ t.words = "M views"
         /\ t.tenth \in 0..9
         /\ Nearest(10 * t.whole + t.tenth, e.n, Million \div 10)
    ELSE IF e.kind = "int" /\ e.n >= Thousand
    THEN /\ t.words = "K views"
         /\ t.tenth = NoDecimal
         /\ Nearest(t.whole, e.n, Thousand)
         /\ e.n = 2500 => t.whole = 2
    ELSE IF e.kind = "int" /\ e.n >= least
    THEN t = Text(e.n, NoDecimal, " views")
    ELSE t = NotAvailable

\* C20: a count of at least 1,000,000 is shown in millions with one decimal
\* and "M views", a count from 1,000 up in thousands rounded to a whole number
\* and "K views" (2,500 as "2K views"), every other present count, 0 included,
\* as the count itself and " views", and only an absent count as "Views not
\* available"
C20_ViewsHumanized ==
    hd.kind = "views" /\ hd.pc = "caption" => Humanized(hd.entry, hd.view_text, 0)

\* C20 as the code has it: a count of 0 is shown like an absent one, as "Views
\* not available"; the counts from 1 to 999 are written out; a count of
\* thousands and a half is rounded to the even number of thousands
C20_ViewsHumanizedFromOne ==
    hd.kind = "views" /\ hd.pc = "caption"
    => /\ Humanized(hd.entry, hd.view_text, 1)
       /\ hd.view_text.words = "K views" /\ 2 * (hd.entry.n % Thousand) = Thousand
            => hd.view_text.whole % 2 = 0

\* an entry whose count is 0 got its caption
C20_Witness ==
    /\ hd.kind = "views" /\ hd.pc = "caption"
    /\ hd.entry = ViewInt(0)
    /\ hd.view_text = NotAvailable

(***************************************************************************)
(* Cancel, bare text, and the candidate a selection fetches                *)
(***************************************************************************)
\* C21: the handling of a cancel sends the acknowledgement and no other
\* message (the acknowledgement is out when an answered handling ends), starts
\* no fetch, sends no file, and leaves the user's list, query and
\* last-delivered fields, the working directory and the cache as they were
C21_CancelOnlyAcknowledges ==
    hd.kind = "callback" /\ hd.data = Cancel
    =>  /\ hd.fetch = None /\ hd.sent = <<>>
        /\ user_data[hd.user] = hd.pre.ud
        /\ cwd = hd.pre.cwd /\ cache = hd.pre.cache
        /\ Len(hd.msgs) <= 1
        /\ \A i \in DOMAIN hd.msgs : hd.msgs[i].kind = "cancelled"
        /\ Ended /\ hd.answered => Len(hd.msgs) = 1

\* a user who holds a list and a delivered audio cancelled and got the
\* acknowledgement
C21_Witness ==
    /\ hd.kind = "callback" /\ hd.data = Cancel /\ hd.pc = "done"
    /\ hd.msgs # <<>> /\ hd.msgs[1].ok
    /\ hd.pre.ud.search_results # <<>>
    /\ hd.pre.ud.last_audio_path # <<>>

\* ---------------------------------------------------------------------------
\* handle_message: the text messages that are not commands
\* ---------------------------------------------------------------------------

MaxTextLen == 5     \* the longest message text the model draws
TextAlphabet == {" ", "a", "o", "p", "r", "t", "y", "Y"}
Texts == UNION {[1..k -> TextAlphabet] : k \in 0..MaxTextLen}

\* str.lower() on the letters of the alphabet
LowerChar(c) == IF c = "Y" THEN "y" ELSE c
Lower(s) == [i \in 1..Len(s) |-> LowerChar(s[i])]

\* word in text: text has word as a substring
Contains(text, word) ==
    \E i \in 0..(Len(text) - Len(word)) : SubSeq(text, i + 1, i + Len(word)) = word

\* the greetings (line 886)
greetings ==
    { <<"h", "i">>, <<"h", "e", "l", "l", "o">>, <<"h", "e", "y">>, <<"s", "u", "p">>,
      <<"y", "o">>, <<"h", "o", "l", "a">>, <<"n", "a", "m", "a", "s", "t", "e">> }

\* the words of thanks (line 898)
thanks ==
    { <<"t", "h", "a", "n", "k", "s">>, <<"t", "h", "a", "n", "k", " ", "y", "o", "u">>,
      <<"t", "h", "x">>, <<"t", "y">>, <<"a", "w", "e", "s", "o", "m", "e">>,
      <<"g", "r", "e", "a", "t">>, <<"c", "o", "o", "l">> }

\* if any(word in query.lower() for word in thanks) (line 899)
IsThanks(query) == \E word \in thanks : Contains(Lower(query), word)

\* if query.lower() in greetings (line 887)
IsGreeting(query) == Lower(query) \in greetings

\* no call of handle_music_request, and the call with its query
NoRequest == [called |-> FALSE, query |-> <<>>]
Request(query) == [called |-> TRUE, query |-> query]

\* handle_message(update, context) (lines 874-908): the reply it sends, or the
\* call of handle_music_request(update, context, query)
HandleMessage ==
    /\ hd.kind = "message" /\ hd.pc = "received"
    /\ LET query == Strip(hd.text)
       IN  hd' = [hd EXCEPT
                    !.pc = "routed",
                    !.reply = IF query = <<>> THEN "didnt_catch"
                              ELSE IF IsGreeting(query) THEN "greeting"
                              ELSE IF IsThanks(query) THEN "welcome"
                              ELSE "none",
                    !.request = IF query # <<>> /\ ~IsGreeting(query) /\ ~IsThanks(query)
                                THEN Request(query) ELSE NoRequest]
    /\ UNCHANGED <<pure, world, nupd>>

\* the reply or the call has returned
MessageEnds ==
    /\ hd.kind = "message" /\ hd.pc = "routed"
    /\ hd' = [hd EXCEPT !.pc = "done"]
    /\ UNCHANGED <<pure, world, nupd>>

InitMessage ==
    /\ ts = TsIdle
    /\ rt = RtIdle
    /\ user_data = [u \in Users |-> NoSession]
    /\ cwd = {}
    /\ cache = {}
    /\ presented = [u \in Users |-> {}]
    /\ nupd = 0
    /\ parked = {}
    /\ hd \in {[kind |-> "message", pc |-> "received", text |-> t, reply |-> "none",
                 request |-> NoRequest] : t \in Texts}

NextMessage == HandleMessage \/ MessageEnds

SpecMessage == InitMessage /\ [][NextMessage]_vars

\* C22: every text message that is not empty once trimmed is passed to the
\* search handling, with the trimmed text as the query
C22_BareTextIsSearched ==
    hd.kind = "message" /\ hd.pc \in {"routed", "done"} /\ Strip(hd.text) # <<>>
    => hd.request = Request(Strip(hd.text))

\* C23: when a selection made with a control of the user's current list is
\* accepted and its fetch starts, the candidate fetched is the one of that
\* list whose ordinal and source identifier the control carries, also when
\* the list was built from entries some of which were empty
C23_FetchesThePressedCandidate ==
    hd.kind = "callback" /\ hd.origin = "current" /\ hd.fetch # None
    => hd.selected.index = hd.data.ord /\ hd.fetch = hd.data.id

\* ---------------------------------------------------------------------------
\* A cut, a selection and a search interleaved at their awaits
\* ---------------------------------------------------------------------------

\* u1 was delivered v2 and then searched and was shown v1
AwaitSession ==
    [NoSession EXCEPT !.search_results = search_songs(<<"v1">>, NumResults),
                      !.search_query = "q1",
                      !.last_audio_path = CacheAudio("v2"),
                      !.last_audio_title = TitleOf("v2"),
                      !.last_audio_artist = UploaderOf("v2")]

\* /cut 30 1:15
AwaitCutArgs == <<<<"3", "0">>, <<"1", ":", "1", "5">>>>

\* no handler of this kind is under way for the user
NoneUnderWay(u, kind) == \A h \in parked : h.user # u \/ h.kind # kind

InitAwait ==
    /\ ts = TsIdle
    /\ rt = RtIdle
    /\ user_data = [u \in ConcUsers |-> IF u = "u1" THEN AwaitSession ELSE NoSession]
    /\ cwd = {}
    /\ cache = {CacheFile(CacheAudio("v2"), FALSE)}
    /\ hd = Idle
    /\ presented = [u \in ConcUsers |->
                      IF u = "u1" THEN Pairs(AwaitSession.search_results) ELSE {}]
    /\ nupd = 0
    /\ parked = {}

NextAwait ==
    \/ /\ nupd < ConcUpdates /\ NoneUnderWay("u1", "cut")
       /\ CutBegin("u1", AwaitCutArgs)
    \/ /\ nupd < ConcUpdates /\ NoneUnderWay("u1", "callback")
       /\ CallbackBegin("u1", Download(1, "v1"))
    \/ /\ nupd < ConcUpdates /\ NoneUnderWay("u2", "search")
       /\ SearchBegin("u2", "q1")
    \/ SearchCall
    \/ SearchNoResults
    \/ SearchFound
    \/ SearchPresent
    \/ SearchOops
    \/ CallbackDispatch
    \/ CallbackProgress
    \/ CallbackFetch
    \/ CallbackTooBig
    \/ CallbackAlmost
    \/ CallbackSendAudio
    \/ CallbackSendDocument
    \/ CallbackCache
    \/ CallbackFinish
    \/ CallbackDownloadFailed
    \/ CutInvoke
    \/ CutTranscode
    \/ CutSend
    \/ Park
    \/ Resume
    \/ HandlerEnds

SpecAwait == InitAwait /\ [][NextAwait]_vars

\* the title a cut shows for a session (line 944)
SessionTitle(ud) == IF ud.last_audio_title = <<>> THEN <<"audio">> ELSE ud.last_audio_title

MaxAgeSeconds == 2 * 60 * 60

\* the ages (now - mtime, in seconds) and the kinds of the entries the model
\* puts in the cache directory, and their names
SweepAges == {0, MaxAgeSeconds - 1, MaxAgeSeconds, MaxAgeSeconds + 1}
SweepKinds == {"file", "dir"}
SweepNames == {CacheAudio("v1"), CacheAudio("v2")}
DirEntry(name, kind, age) == [name |-> name, kind |-> kind, age |-> age]

\* the cache directories of the model: no two entries share a name
SweepDirs ==
    {d \in SUBSET {DirEntry(n, k, a) : n \in SweepNames, k \in SweepKinds, a \in SweepAges} :
        \A e, f \in d : e.name = f.name => e = f}

\* expired from the threshold on
ExpiredFrom(age, max_age_seconds) == age >= max_age_seconds

\* now - os.path.getmtime(path) > max_age_seconds (line 98)
Expired(age, max_age_seconds) == age > max_age_seconds

\* _cleanup_cache(max_age_seconds) (lines 90-103): what it leaves of the
\* directory
CleanupByAge(dir, max_age_seconds) ==
    {e \in dir : ~(e.kind = "file" /\ Expired(e.age, max_age_seconds))}

\* the arguments of the cuts of the model: none, timestamps out of order, and
\* /cut 30 1:15
SweepArgs == {<<>>, <<<<"1", "m">>, <<"3", "0">>>>, AwaitCutArgs}

\* cut_command: _cleanup_cache() (line 915)
SweepRuns ==
    /\ hd.kind = "sweep" /\ hd.pc = "called"
    /\ cache' = CleanupByAge(cache, MaxAgeSeconds)
    /\ hd' = [hd EXCEPT !.pc = "validate", !.sweeps = @ + 1]
    /\ UNCHANGED <<pure, user_data, cwd, presented, nupd>>

\* cut_command: the validation of the arguments (lines 917-940)
SweepValidates ==
    /\ hd.kind = "sweep" /\ hd.pc = "validate"
    /\ \E parsed \in {[i \in 1..2 |-> _parse_timestamp_to_seconds(Arg(hd.args, i))]} :
       \E v \in {CutValidate(hd.args, parsed[1], parsed[2])} :
         hd' = [hd EXCEPT !.pc = IF v.verdict = "ok" THEN "lookup" ELSE "done",
                          !.reply = v.verdict,
                          !.validated_in = cache]
    /\ UNCHANGED <<pure, world, nupd>>

\* cut_command: the lookup of the last audio (lines 943-952)
SweepLooksUp ==
    /\ hd.kind = "sweep" /\ hd.pc = "lookup"
    /\ hd' = [hd EXCEPT !.pc = "done",
                        !.reply = IF LastAudioFound(hd.last_audio, cache)
                                  THEN "cutting" ELSE "no_last_audio",
                        !.looked_up_in = cache]
    /\ UNCHANGED <<pure, world, nupd>>

InitSweep ==
    /\ ts = TsIdle
    /\ rt = RtIdle
    /\ user_data = [u \in Users |-> NoSession]
    /\ cwd = {}
    /\ presented = [u \in Users |-> {}]
    /\ nupd = 0
    /\ parked = {}
    /\ cache \in SweepDirs
    /\ hd \in {[kind |-> "sweep", pc |-> "called", args |-> a, last_audio |-> CacheAudio("v1"),
                 dir |-> cache, sweeps |-> 0, reply |-> "none",
                 validated_in |-> {}, looked_up_in |-> {}] : a \in SweepArgs}

NextSweep == SweepRuns \/ SweepValidates \/ SweepLooksUp

SpecSweep == InitSweep /\ [][NextSweep]_vars

\* what a sweep with the threshold of 7200 seconds leaves of a directory
SweptAt7200(dir) == {e \in dir : e.kind # "file" \/ e.age <= 7200}

\* C25: the sweep removes from the cache directory the regular files whose age
\* is above 7200 seconds and nothing else; a cut request runs it once,
\* whatever its arguments, and the validation of the arguments and the lookup
\* of the cached audio both come after it
C25_SweepOncePerCut ==
    hd.kind = "sweep"
    =>  /\ hd.pc = "called" => hd.sweeps = 0 /\ cache = hd.dir
        /\ hd.pc # "called" => hd.sweeps = 1 /\ cache = SweptAt7200(hd.dir)
        /\ hd.reply # "none" => hd.validated_in = SweptAt7200(hd.dir)
        /\ hd.reply \in {"cutting", "no_last_audio"}
             => hd.looked_up_in = SweptAt7200(hd.dir)

\* a cut whose timestamps are refused swept a file one second above the
\* threshold and kept a file at the threshold
C25_Witness ==
    /\ hd.kind = "sweep" /\ hd.pc = "done" /\ hd.reply = "invalid"
    /\ DirEntry(CacheAudio("v1"), "file", 7201) \in hd.dir \ cache
    /\ \E e \in cache : e.kind = "file" /\ e.age = 7200

(***************************************************************************)
(* The cache as a best-effort store                                        *)
(***************************************************************************)
\* C26: when the copy of the delivered file into the cache fails (the cache
\* directory could not be made, or the copy itself raised), the user's
\* last-delivered path, title and artist and the cache directory stay as
\* they were, and the handling ends as it would have: with the success report
\* and the working file deleted when a send succeeded, with the could-not-send
\* report when none did
C26_CacheFailureKeepsOutcome ==
    hd.kind = "callback" /\ hd.copy_failed
    =>  /\ user_data[hd.user] = hd.pre.ud
        /\ cache = hd.pre.cache
        /\ Ended /\ hd.sent_ok
             => /\ hd.msgs[Len(hd.msgs)].kind = "success"
                /\ hd.song_file \notin cwd
        /\ Ended /\ ~hd.sent_ok => hd.msgs[Len(hd.msgs)].kind = "could_not_send"

\* a user who had been delivered a track was sent another one whose copy into
\* the cache failed: the success report went out and the session still names
\* the earlier track
C26_Witness ==
    /\ hd.kind = "callback" /\ hd.pc = "done" /\ hd.copy_failed /\ hd.sent_ok
    /\ hd.msgs[Len(hd.msgs)] = Msg("success", hd.song_info, {}, TRUE, TRUE)
    /\ hd.pre.ud.last_audio_path # <<>>
    /\ user_data[hd.user].last_audio_path # CacheAudio(hd.song_info)

\* C27: when the transcoder has produced a clip above 50MB, the cut sends no
\* file, and when the handling ends the clip is gone from the cache directory
\* and the size rejection has been sent
C27_OversizeClipNeverSent ==
    hd.kind = "cut" /\ hd.clip_big
    =>  /\ hd.sent = <<>>
        /\ Ended => /\ hd.output_path \notin Names(cache)
                    /\ HasMsg("clip_too_large")

(***************************************************************************)
(* What keeps the event loop                                               *)
(***************************************************************************)
\* a step of the running handler, other than leaving the loop
HandlerStep ==
    \/ SearchCall \/ SearchNoResults \/ SearchFound \/ SearchPresent \/ SearchOops
    \/ CallbackDispatch \/ CallbackProgress \/ CallbackFetch \/ CallbackTooBig
    \/ CallbackAlmost \/ CallbackSendAudio \/ CallbackSendDocument \/ CallbackCache
    \/ CallbackFinish \/ CallbackDownloadFailed
    \/ CutInvoke \/ CutTranscode \/ CutSend
    \/ HandlerEnds

\* a cut whose transcoder is running
Transcoding(h) == h.kind = "cut" /\ h.pc = "ffmpeg_run"

C29_CapabilityCallsSuspend ==
    hd.kind \in {"search", "callback"} /\ hd.pc \in {"searching", "fetch"}
    => ENABLED Park

\* ---------------------------------------------------------------------------
\* The executor's trace when a call succeeds
\* ---------------------------------------------------------------------------

\* the backoff waits of the call so far
Waits == SelectSeq(rt.log, LAMBDA x : x.ev = "sleep")

\* C30: when the executor returns, the operation succeeded for the first time
\* on its last attempt k, k is at most retries + 1, the executor returns the
\* value of that attempt, the trace is k attempts with one wait between every
\* two consecutive attempts (k - 1 waits), and the j-th wait lies between
\* base_delay * 2^(j-1) and base_delay * 2^(j-1) + jitter; when the executor
\* gives up, the trace ends with the failed attempt and no wait follows it.
C30_RetryTrace ==
    /\ rt.status = "returned" =>
         LET k == Len(Attempts)
         IN  /\ k >= 1 /\ k <= rt.retries + 1
             /\ Attempts[k].err = None /\ rt.value = Attempts[k].val
             /\ \A i \in 1..(k - 1) : Attempts[i].err # None
             /\ Len(Waits) = k - 1 /\ Len(rt.log) = 2 * k - 1
             /\ \A i \in 1..k : rt.log[2 * i - 1].ev = "call"
             /\ \A j \in 1..(k - 1) :
                  /\ rt.log[2 * j].ev = "sleep"
                  /\ rt.log[2 * j].delay >= BaseDelay * 2 ^ (j - 1)
                  /\ rt.log[2 * j].delay <= BaseDelay * 2 ^ (j - 1) + Jitter
    /\ rt.status = "raised" =>
         /\ rt.log[Len(rt.log)].ev = "call"
         /\ Len(Waits) = Len(Attempts) - 1

\* the call with the default retries=3 succeeded on its fourth attempt, after
\* three waits of which the last was the longest it can be
C30_Witness ==
    /\ rt.status = "returned" /\ rt.retries = DefaultRetries
    /\ Len(Attempts) = 4 /\ rt.value = "r2"
    /\ Len(Waits) = 3 /\ Waits[3].delay = BaseDelay * 4 + Jitter

\* ---------------------------------------------------------------------------
\* The calls of the search, the fetch and the transcoder
\* ---------------------------------------------------------------------------

\* the handler has made its call of the capability, or has passed the place
\* where it makes it
PastTheCall ==
    \/ hd.kind = "search" /\ hd.pc \notin {"searching", "raised"}
    \/ hd.kind = "callback" /\ hd.pc \in {"dl_failed", "too_big", "almost"}
    \/ hd.kind = "cut" /\ hd.pc \in {"ffmpeg_run", "send"}

\* C31: a handler calls its capability at most once, also when the call
\* failed: one search per query, one fetch per accepted selection, one run of
\* the transcoder per cut; a handler that did not come to the call made none,
\* and one whose call failed does not come to the call again.
C31_OneCallPerRequest ==
    hd.kind \in {"search", "callback", "cut"} =>
        /\ hd.calls <= 1
        /\ hd.calls = 1 => hd.pc \notin {"searching", "fetch", "ffmpeg"}
        /\ hd.kind = "search" /\ PastTheCall => hd.calls = 1
        /\ hd.kind = "callback" /\ PastTheCall => hd.calls = 1
        /\ hd.kind = "callback" /\ hd.data.op # "download" => hd.calls = 0
        /\ hd.kind = "cut" /\ ~HasMsg("cutting") => hd.calls = 0
        /\ hd.kind = "cut" /\ PastTheCall => hd.calls = Len(hd.ffmpeg)

\* the search of a query raised and the handler returned after its apology:
\* it called the search once
C31_Witness ==
    /\ hd.kind = "search" /\ hd.pc = "done" /\ ~hd.searched
    /\ HasMsg("oops") /\ hd.calls = 1

\* ---------------------------------------------------------------------------
\* _sanitize_filename (bot.py 105-108)
\* ---------------------------------------------------------------------------

MaxNameLen == 3     \* the longest of the names drawn from the whole alphabet

\* the characters of the class [<>:"/\\|?*] (line 106)
Forbidden == {"<", ">", ":", "\"", "/", "\\", "|", "?", "*"}

\* characters str.strip() takes off the ends
Whitespace == {" ", "\t"}

NameAlphabet == Forbidden \cup Whitespace \cup {"a"}

\* 'audio' (line 108)
Placeholder == <<"a", "u", "d", "i", "o">>

\* the names the function is given: every name over NameAlphabet of at most
\* MaxNameLen characters, and the placeholder with a character before it, in
\* it or after it
Names32 ==
    UNION {[1..k -> NameAlphabet] : k \in 0..MaxNameLen}
        \cup {Placeholder}
        \cup {<<c>> \o Placeholder : c \in NameAlphabet}
        \cup {Placeholder \o <<c>> : c \in NameAlphabet}
        \cup {<<"a", "u", c, "d", "i", "o">> : c \in NameAlphabet}

\* a substitution that leaves the backslash in the name
SubForbiddenButBackslash(name) == SelectSeq(name, LAMBDA c : c \notin Forbidden \ {"\\"})

\* re.sub(r'[<>:"/\\|?*]', '', name) (line 106)
SubForbidden(name) == SelectSeq(name, LAMBDA c : c \notin Forbidden)

RECURSIVE LStripWs(_)
LStripWs(s) == IF s # <<>> /\ Head(s) \in Whitespace THEN LStripWs(Tail(s)) ELSE s

RECURSIVE RStripWs(_)
RStripWs(s) ==
    IF s # <<>> /\ s[Len(s)] \in Whitespace THEN RStripWs(SubSeq(s, 1, Len(s) - 1)) ELSE s

\* name.strip() (line 107)
StripWs(s) == RStripWs(LStripWs(s))

\* return name or 'audio' (line 108)
OrAudio(name) == IF name = <<>> THEN Placeholder ELSE name

\* _sanitize_filename(name)
_sanitize_filename(name) == OrAudio(StripWs(SubForbidden(name)))

\* the function is applied to a name
SanitizeName ==
    /\ hd.kind = "sanitize" /\ hd.pc = "given"
    /\ hd' = [hd EXCEPT !.pc = "once", !.once = _sanitize_filename(hd.name)]
    /\ UNCHANGED <<pure, world, nupd>>

\* the function is applied to its own result
SanitizeAgain ==
    /\ hd.kind = "sanitize" /\ hd.pc = "once"
    /\ hd' = [hd EXCEPT !.pc = "twice", !.twice = _sanitize_filename(hd.once)]
    /\ UNCHANGED <<pure, world, nupd>>

InitSanitize ==
    /\ ts = TsIdle
    /\ rt = RtIdle
    /\ user_data = [u \in Users |-> NoSession]
    /\ cwd = {}
    /\ cache = {}
    /\ presented = [u \in Users |-> {}]
    /\ nupd = 0
    /\ parked = {}
    /\ hd \in {[kind |-> "sanitize", pc |-> "given", name |-> n, once |-> <<>>,
                 twice |-> <<>>] : n \in Names32}

NextSanitize == SanitizeName \/ SanitizeAgain

SpecSanitize == InitSanitize /\ [][NextSanitize]_vars

\* what is left of a name when the forbidden characters are taken out and the
\* blanks at its ends are taken off: nothing of it is a forbidden character,
\* and it is the name without some of its characters
LeavesNothing(name) ==
    \A i \in 1..Len(name) : name[i] \in Forbidden \cup Whitespace

\* the result is safe: not empty, no forbidden character, no blank at an end
Safe(r) ==
    /\ r # <<>>
    /\ \A i \in 1..Len(r) : r[i] \notin Forbidden
    /\ r[1] \notin Whitespace /\ r[Len(r)] \notin Whitespace

\* C32 as stated: sanitizing twice gives what sanitizing once gives, the
\* result is safe, and the result is the placeholder exactly when stripping
\* and trimming leave nothing of the name.
C32_SanitizeAsStated ==
    /\ hd.kind = "sanitize" /\ hd.pc = "twice" => hd.twice = hd.once
    /\ hd.kind = "sanitize" /\ hd.pc # "given" =>
         /\ Safe(hd.once)
         /\ (hd.once = Placeholder) <=> LeavesNothing(hd.name)

\* C32: sanitizing twice gives what sanitizing once gives; the result is
\* safe; when stripping and trimming leave nothing of the name the result is
\* the placeholder, and otherwise the result is the characters they leave, in
\* their order, which are the placeholder only when the name spells it.
C32_Sanitize ==
    /\ hd.kind = "sanitize" /\ hd.pc = "twice" => hd.twice = hd.once
    /\ hd.kind = "sanitize" /\ hd.pc # "given" =>
         /\ Safe(hd.once)
         /\ LeavesNothing(hd.name) => hd.once = Placeholder
         /\ ~LeavesNothing(hd.name) =>
              \E i, j \in 1..Len(hd.name) :
                 /\ i <= j
                 /\ hd.name[i] \notin Forbidden \cup Whitespace
                 /\ hd.name[j] \notin Forbidden \cup Whitespace
                 /\ \A k \in 1..Len(hd.name) :
                      k < i \/ k > j => hd.name[k] \in Forbidden \cup Whitespace
                 /\ hd.once = SelectSeq(SubSeq(hd.name, i, j), LAMBDA c : c \notin Forbidden)

\* the name "au:dio" was sanitized twice: stripping and trimming leave five
\* characters of it, which came out both times and spell the placeholder
C32_Witness ==
    /\ hd.kind = "sanitize" /\ hd.pc = "twice"
    /\ hd.name = <<"a", "u", ":", "d", "i", "o">>
    /\ ~LeavesNothing(hd.name)
    /\ hd.once = Placeholder /\ hd.twice = Placeholder

\* a name of a colon between two blanks came out as the placeholder
C32_WitnessNothingLeft ==
    /\ hd.kind = "sanitize" /\ hd.pc = "twice"
    /\ hd.name = <<" ", ":", " ">>
    /\ hd.once = Placeholder /\ hd.twice = Placeholder
====
